---------------------------- MODULE Spec2Model ----------------------------
(***************************************************************************)
(* analog: fetch CloudWatch log events and store them in SQLite.           *)
(*                                                                         *)
(* Three parts of the repository are modelled, each with the environment   *)
(* that drives it:                                                         *)
(*   "aws"  - src/aws.rs: the two cursor-paginated calls get_log_groups    *)
(*            and fetch_logs against a remote that answers page by page;   *)
(*   "db"   - src/db.rs: store_events_in_sqlite and dedupe_rows called by  *)
(*            concurrent tasks on the shared Arc<Mutex<Pool<Sqlite>>>;     *)
(*   "main" - src/main.rs: the orchestrator main() with its own copies of  *)
(*            the paginated calls and of the store function.               *)
(* Each has its own specification: SpecAws, SpecDb, SpecMain. SpecFilter   *)
(* is the log group filter of main.rs on its own; SpecAwsLive and          *)
(* SpecDbLive add the fairness of the runtime to the aws and the db part.  *)
(*                                                                         *)
(* An Option<T> is a sequence of length at most one: None is <<>> and      *)
(* Some(x) is <<x>>.                                                       *)
(***************************************************************************)
EXTENDS Integers, Sequences, FiniteSets, TLC

VARIABLES
    \* ---- src/aws.rs: one paginated call
    pgPc,           \* "idle" | "loop" | "return"
    pgCall,         \* the call's arguments: [op, log_group_name, window]
    result,         \* aws.rs: let mut result = Vec::new()
    next_token,     \* aws.rs: let mut next_token = None
    sent,           \* the requests the remote has received, in order
    served,         \* the responses the remote has given, in order
    pgRet,          \* the call's Result once pgPc = "return"
    remote,         \* the listing the remote serves: "finite" | "endless"
    \* ---- the SQLite file
    table,          \* the committed rows of cloudwatch_logs
    sqlite_sequence,\* AUTOINCREMENT: the largest id ever committed
    \* ---- src/db.rs: tasks calling into the shared Arc<Mutex<Pool<Sqlite>>>
    mutex,          \* the tokio Mutex: None, or Some(task holding the guard)
    pc,             \* task -> "idle" | "lock" | "begin" | "insert" | "execute" | "commit"
    call,           \* task -> [fn, log_group_name, events] of the call in progress
    idx,            \* task -> index of the next event of the for loop
    tx,             \* task -> its sqlx Transaction: [open, view, seq]
    before,         \* task -> the committed rows when its call got the lock
    lastRet,        \* the outcome of the call that returned last
    sinceInsert,    \* dedupe commits since the last insert commit (0, 1, 2 = more)
    \* ---- src/main.rs: one run of main() after the other on the same file
    mainPc,         \* "start" | "get_log_groups" | "filter" | "connect" |
                    \* "init_sqlite_db" | "for" | "fetch_logs" | "store" |
                    \* "done" (Ok(())) | "failed" (Err)
    cli_log_group,  \* cli.log_group: Option<String>
    m_result,       \* main.rs: result of the paginated call in progress
    m_next_token,   \* main.rs: next_token of the paginated call in progress
    m_err,          \* the call whose Err main returns with `?`, once it has failed
    filtered_log_groups,
    pool,           \* main.rs: let pool = SqlitePool::connect(..): None before
    schema,         \* the file has the cloudwatch_logs table and its index
    gi,             \* position of the for loop in filtered_log_groups
    in_flight,      \* the positions whose loop body has begun and not ended
    store_calls     \* the store functions this run has called, in order,
                    \* each with whether it returned Ok

awsVars == <<pgPc, pgCall, result, next_token, sent, served, pgRet, remote>>
fileVars == <<table, sqlite_sequence>>
dbVars == <<mutex, pc, call, idx, tx, before, lastRet, sinceInsert>>

mainVars == <<mainPc, cli_log_group, m_result, m_next_token, m_err,
              filtered_log_groups, pool, schema, gi, in_flight, store_calls>>

vars == <<awsVars, fileVars, dbVars, mainVars>>

\* ------------------------------------------------------------- bounds
MaxPages == 3       \* the remote ends every listing within MaxPages pages
MaxItems == 1       \* items per page
MaxBatch == 2       \* events per insert batch
MaxId == 3          \* rows ever inserted into the table
MaxGroups == 2      \* log groups the remote lists
MaxEvents == 3      \* events the remote holds for one log group

\* ------------------------------------------------------------- Option
None == <<>>
Some(x) == <<x>>
IsNone(o) == o = <<>>
Opt(S) == {None} \cup {Some(x) : x \in S}

\* Option::unwrap_or
unwrap_or(o, d) == IF o = <<>> THEN d ELSE o[1]

SeqsUpTo(S, n) == UNION {[1..k -> S] : k \in 0..n}

\* ------------------------------------------------------------- remote
Items == {"a", "b"}
Tokens == {"c1", "c2"}
GroupNames == {"A", "B"}
Windows == {<<0, 100>>}

\* One answer of the remote to describe_log_groups / filter_log_events:
\* an error, or a page with optional items and an optional next_token.
ErrResponse == [ok |-> FALSE, items |-> None, next_token |-> None]
OkResponses ==
    [ok : {TRUE}, items : Opt(SeqsUpTo(Items, MaxItems)), next_token : Opt(Tokens)]
Responses == OkResponses \cup {ErrResponse}

\* The calls the environment makes.
Calls ==
    {[op |-> "describe_log_groups", log_group_name |-> None, window |-> None]}
    \cup [op : {"filter_log_events"},
          log_group_name : {Some(g) : g \in GroupNames},
          window : {Some(w) : w \in Windows}]

\* The request one loop iteration builds (aws.rs 46-49 and 74-80).
Request(c, token) ==
    [op |-> c.op, log_group_name |-> c.log_group_name,
     window |-> c.window, next_token |-> token]

Ok(v) == [ok |-> TRUE, value |-> v]
Err == [ok |-> FALSE, value |-> <<>>]

\* ------------------------------------------------------------- src/aws.rs
\* let mut result = Vec::new(); let mut next_token = None;
PageCallEnter(c) ==
    /\ pgPc = "idle"
    /\ pgCall' = c
    /\ result' = <<>>
    /\ next_token' = None
    /\ pgPc' = "loop"
    /\ UNCHANGED <<sent, served, pgRet, remote, fileVars, dbVars, mainVars>>

\* (mutant) the page's items are put in front of the accumulated ones
ExtendInFront(acc, items_opt) == unwrap_or(items_opt, <<>>) \o acc

\* if let Some(items) = resp.items { result.extend(items) }
Extend(acc, items_opt) == acc \o unwrap_or(items_opt, <<>>)

\* (mutant) a failed page ends the loop with what was accumulated so far
PageLoopBodyPartial(resp) ==
    /\ sent' = Append(sent, Request(pgCall, next_token))
    /\ served' = Append(served, resp)
    /\ result' = Extend(result, resp.items)
    /\ next_token' = resp.next_token
    /\ IF IsNone(resp.next_token)
       THEN pgPc' = "return" /\ pgRet' = Ok(result')
       ELSE pgPc' = "loop" /\ UNCHANGED pgRet
    /\ UNCHANGED <<pgCall, remote, fileVars, dbVars, mainVars>>

\* (mutant) a page cap: the loop returns after two pages, cursor or not
PageLoopBodyCapped(resp) ==
    /\ sent' = Append(sent, Request(pgCall, next_token))
    /\ served' = Append(served, resp)
    /\ IF ~resp.ok
       THEN /\ pgPc' = "return"
            /\ pgRet' = Err
            /\ UNCHANGED <<result, next_token>>
       ELSE /\ result' = Extend(result, resp.items)
            /\ next_token' = resp.next_token
            /\ IF IsNone(resp.next_token) \/ Len(served') = 2
               THEN pgPc' = "return" /\ pgRet' = Ok(result')
               ELSE pgPc' = "loop" /\ UNCHANGED pgRet
    /\ UNCHANGED <<pgCall, remote, fileVars, dbVars, mainVars>>

\* One iteration of the loop: send the request with the current cursor,
\* `?` on the answer, extend the result, take the page's cursor, break on None.
PageLoopBody(resp) ==
    /\ sent' = Append(sent, Request(pgCall, next_token))
    /\ served' = Append(served, resp)
    /\ IF ~resp.ok
       THEN /\ pgPc' = "return"
            /\ pgRet' = Err
            /\ UNCHANGED <<result, next_token>>
       ELSE /\ result' = Extend(result, resp.items)
            /\ next_token' = resp.next_token
            /\ IF IsNone(resp.next_token)
               THEN pgPc' = "return" /\ pgRet' = Ok(result')
               ELSE pgPc' = "loop" /\ UNCHANGED pgRet
    /\ UNCHANGED <<pgCall, remote, fileVars, dbVars, mainVars>>

\* What .send().await can return (aws.rs 50 and 81). A finite listing ends,
\* with a page without cursor or with an error, within MaxPages pages; an
\* endless one answers every request with a page that has a cursor (the model
\* follows it for MaxPages pages).
RemoteAnswers(resp) ==
    IF remote = "finite"
    THEN Len(served) + 1 = MaxPages => (~resp.ok \/ IsNone(resp.next_token))
    ELSE resp.ok /\ ~IsNone(resp.next_token) /\ Len(served) < MaxPages

\* pub async fn get_log_groups(client)
get_log_groups ==
    /\ pgPc = "loop"
    /\ pgCall.op = "describe_log_groups"
    /\ \E resp \in Responses :
        /\ RemoteAnswers(resp)
        /\ PageLoopBody(resp)

\* pub async fn fetch_logs(client, log_group_name, start_time, end_time)
fetch_logs ==
    /\ pgPc = "loop"
    /\ pgCall.op = "filter_log_events"
    /\ \E resp \in Responses :
        /\ RemoteAnswers(resp)
        /\ PageLoopBody(resp)

AwsInit ==
    /\ pgPc = "idle"
    /\ pgCall = [op |-> "describe_log_groups", log_group_name |-> None, window |-> None]
    /\ result = <<>>
    /\ next_token = None
    /\ sent = <<>>
    /\ served = <<>>
    /\ pgRet = Err
    /\ remote = "finite"

AwsNext ==
    \/ \E c \in Calls : PageCallEnter(c)
    \/ get_log_groups
    \/ fetch_logs


\* ------------------------------------------------------------- src/models.rs
\* pub struct SavedLogEvent: every field is an Option.
EvFull ==
    [log_stream_name |-> Some("s"), timestamp |-> Some(100), message |-> Some("m"),
     ingestion_time |-> Some(100), event_id |-> Some("e1")]
EvNone ==
    [log_stream_name |-> None, timestamp |-> None, message |-> None,
     ingestion_time |-> None, event_id |-> None]
Events == {EvFull, EvNone}
Batches == SeqsUpTo(Events, MaxBatch)

\* ------------------------------------------------------------- src/db.rs
Tasks == {"t1", "t2"}

\* A value bound to a nullable column: Some(v); SQL NULL is None.
Bind(v) == Some(v)
NULL == None

\* (mutant) the event's Options are bound as they are: an absent field is NULL
EventRowNullable(id, log_group_name, event) ==
    [id |-> id, log_group |-> log_group_name, event_id |-> event.event_id,
     timestamp |-> event.timestamp, message |-> event.message]

\* The row one INSERT makes (db.rs 98-108): unwrap_or_default / unwrap_or(0),
\* then bind ?1..?4; the id is the AUTOINCREMENT key.
EventRow(id, log_group_name, event) ==
    [id |-> id,
     log_group |-> log_group_name,
     event_id |-> Bind(unwrap_or(event.event_id, "")),
     timestamp |-> Bind(unwrap_or(event.timestamp, 0)),
     message |-> Bind(unwrap_or(event.message, ""))]

\* (mutant) the log group is left out of the grouping
GroupKeyNoLogGroup(r) == <<r.event_id, r.timestamp, r.message>>

\* GROUP BY log_group, event_id, timestamp, message
GroupKey(r) == <<r.log_group, r.event_id, r.timestamp, r.message>>

MinOf(S) == CHOOSE x \in S : \A y \in S : x <= y

\* SELECT MIN(id) FROM cloudwatch_logs GROUP BY ...
SelectMinId(rows) ==
    {MinOf({s.id : s \in {x \in rows : GroupKey(x) = k}}) : k \in {GroupKey(r) : r \in rows}}

\* (mutant) DELETE ... WHERE id IN (...): what is left is every row but the minima
DeleteIn(rows) == {r \in rows : r.id \notin SelectMinId(rows)}

\* What DELETE FROM cloudwatch_logs WHERE id NOT IN (SELECT MIN(id) ...) leaves.
DeleteNotIn(rows) == {r \in rows : ~(r.id \notin SelectMinId(rows))}

NoCall == [fn |-> "", log_group_name |-> "", events |-> <<>>]
NoTx == [open |-> FALSE, view |-> {}, seq |-> 0]

\* (mutant) the lock is not taken: the call goes on whoever holds the guard
MutexFreeAlways == TRUE

\* pool.lock().await returns once no other task holds the guard.
MutexFree == IsNone(mutex)

\* The statements the call has executed in its transaction.
Executed(t) ==
    IF call[t].fn = "dedupe_rows"
    THEN (IF pc[t] = "commit" THEN 1 ELSE 0)
    ELSE idx[t] - 1

\* (mutant) the guard is released only by the Ok path: an early return with an
\* error leaves the mutex locked
ReturnHoldingOnErr(t, r) ==
    /\ pc' = [pc EXCEPT ![t] = "idle"]
    /\ tx' = [tx EXCEPT ![t] = NoTx]
    /\ mutex' = IF mutex = Some(t) /\ r.ok THEN None ELSE mutex
    /\ before' = [before EXCEPT ![t] = {}]
    /\ idx' = [idx EXCEPT ![t] = 1]
    /\ lastRet' = [fn |-> call[t].fn, ok |-> r.ok, n |-> Executed(t)]
    /\ call' = [call EXCEPT ![t] = NoCall]

\* The function returns r: tx (if still open) is dropped, which rolls it back,
\* and the MutexGuard locked_pool is dropped, which unlocks.
Return(t, r) ==
    /\ pc' = [pc EXCEPT ![t] = "idle"]
    /\ tx' = [tx EXCEPT ![t] = NoTx]
    /\ mutex' = IF mutex = Some(t) THEN None ELSE mutex
    /\ before' = [before EXCEPT ![t] = {}]
    /\ idx' = [idx EXCEPT ![t] = 1]
    /\ lastRet' = [fn |-> call[t].fn, ok |-> r.ok, n |-> Executed(t)]
    /\ call' = [call EXCEPT ![t] = NoCall]

\* A task calls dedupe_rows or store_events_in_sqlite and awaits the lock.
Call(t) ==
    /\ pc[t] = "idle"
    /\ pc' = [pc EXCEPT ![t] = "lock"]
    /\ UNCHANGED <<awsVars, mainVars, fileVars, mutex, call, idx, tx, before,
                   lastRet, sinceInsert>>

\* let locked_pool = pool.lock().await;   (db.rs 69 and 89)
\* c is the call that was waiting: its function and arguments.
Lock(t, c) ==
    /\ pc[t] = "lock"
    /\ MutexFree
    /\ mutex' = Some(t)
    /\ call' = [call EXCEPT ![t] = c]
    /\ before' = [before EXCEPT ![t] = table]
    /\ pc' = [pc EXCEPT ![t] = "begin"]
    /\ idx' = [idx EXCEPT ![t] = 1]
    /\ UNCHANGED <<awsVars, mainVars, fileVars, tx, lastRet, sinceInsert>>

\* let mut tx = locked_pool.begin().await?;   (db.rs 70 and 90)
Begin(t) ==
    /\ pc[t] = "begin"
    /\ \/ /\ tx' = [tx EXCEPT ![t] = [open |-> TRUE, view |-> table, seq |-> sqlite_sequence]]
          /\ pc' = [pc EXCEPT ![t] =
                      IF call[t].fn = "dedupe_rows" THEN "execute"
                      ELSE IF call[t].events = <<>> THEN "commit" ELSE "insert"]
          /\ UNCHANGED <<mutex, call, idx, before, lastRet>>
       \/ Return(t, Err)
    /\ UNCHANGED <<awsVars, mainVars, fileVars, sinceInsert>>

\* (mutant) INSERT OR IGNORE against a unique key on the four columns
TxInsertIgnore(x, log_group_name, event) ==
    IF \E r \in x.view : GroupKey(r) = GroupKey(EventRow(0, log_group_name, event))
    THEN x
    ELSE [x EXCEPT !.view = @ \cup {EventRow(x.seq + 1, log_group_name, event)},
                   !.seq = @ + 1]

\* The transaction after one INSERT: the new row gets the next AUTOINCREMENT id.
TxInsert(x, log_group_name, event) ==
    [x EXCEPT !.view = @ \cup {EventRow(x.seq + 1, log_group_name, event)},
              !.seq = @ + 1]

\* tx.commit().await?; Ok(())   (db.rs 80-81 and 113-114)
Commit(t) ==
    /\ pc[t] = "commit"
    /\ \/ /\ table' = tx[t].view
          /\ sqlite_sequence' = tx[t].seq
          /\ sinceInsert' =
                IF call[t].fn = "dedupe_rows"
                THEN (IF sinceInsert >= 2 THEN 2 ELSE sinceInsert + 1)
                ELSE 0
          /\ Return(t, Ok(<<>>))
       \/ /\ Return(t, Err)
          /\ UNCHANGED <<fileVars, sinceInsert>>
    /\ UNCHANGED <<awsVars, mainVars>>

\* pub async fn dedupe_rows(pool): sqlx::query(sql).execute(&mut tx).await?
dedupe_rows(t) ==
    /\ pc[t] = "execute"
    /\ \/ /\ tx' = [tx EXCEPT ![t].view = DeleteNotIn(@)]
          /\ pc' = [pc EXCEPT ![t] = "commit"]
          /\ UNCHANGED <<mutex, call, idx, before, lastRet>>
       \/ Return(t, Err)
    /\ UNCHANGED <<awsVars, mainVars, fileVars, sinceInsert>>

\* (mutant) the INSERT is executed on the pool, not on tx: it commits at once
store_events_autocommit(t) ==
    /\ pc[t] = "insert"
    /\ \/ /\ table' = table \cup
                 {EventRow(sqlite_sequence + 1, call[t].log_group_name,
                           call[t].events[idx[t]])}
          /\ sqlite_sequence' = sqlite_sequence + 1
          /\ tx' = [tx EXCEPT ![t] = [@ EXCEPT !.view = table', !.seq = sqlite_sequence']]
          /\ idx' = [idx EXCEPT ![t] = @ + 1]
          /\ pc' = [pc EXCEPT ![t] =
                      IF idx[t] = Len(call[t].events) THEN "commit" ELSE "insert"]
          /\ UNCHANGED <<mutex, call, before, lastRet>>
       \/ Return(t, Err) /\ UNCHANGED fileVars
    /\ UNCHANGED <<awsVars, mainVars, sinceInsert>>

\* pub async fn store_events_in_sqlite(pool, log_group_name, events):
\* one iteration of `for event in events`
store_events_in_sqlite(t) ==
    /\ pc[t] = "insert"
    /\ \/ /\ tx' = [tx EXCEPT ![t] =
                      TxInsert(@, call[t].log_group_name, call[t].events[idx[t]])]
          /\ idx' = [idx EXCEPT ![t] = @ + 1]
          /\ pc' = [pc EXCEPT ![t] =
                      IF idx[t] = Len(call[t].events) THEN "commit" ELSE "insert"]
          /\ UNCHANGED <<mutex, call, before, lastRet>>
       \/ Return(t, Err)
    /\ UNCHANGED <<awsVars, mainVars, fileVars, sinceInsert>>

DedupeCall == [fn |-> "dedupe_rows", log_group_name |-> "", events |-> <<>>]
StoreCalls ==
    [fn : {"store_events_in_sqlite"}, log_group_name : GroupNames, events : Batches]

DbInit ==
    /\ mutex = None
    /\ pc = [t \in Tasks |-> "idle"]
    /\ call = [t \in Tasks |-> NoCall]
    /\ idx = [t \in Tasks |-> 1]
    /\ tx = [t \in Tasks |-> NoTx]
    /\ before = [t \in Tasks |-> {}]
    /\ lastRet = [fn |-> "", ok |-> TRUE, n |-> 0]
    /\ sinceInsert = 0

FileInit ==
    /\ table = {}
    /\ sqlite_sequence = 0

DbNext ==
    \E t \in Tasks :
        \/ Call(t)
        \/ Lock(t, DedupeCall)
        \/ \E c \in StoreCalls :
              /\ sqlite_sequence + Len(c.events) <= MaxId
              /\ Lock(t, c)
        \/ Begin(t)
        \/ store_events_in_sqlite(t)
        \/ dedupe_rows(t)
        \/ Commit(t)


\* ------------------------------------------------------------- src/main.rs
\* aws_sdk_cloudwatchlogs::types::LogGroup: the name is optional.
LogGroups == [log_group_name : Opt(GroupNames)]
\* FilteredLogEvent: the optional fields store_events_in_sqlite reads.
\* The k-th event the remote holds for a log group in the window.
MainEvent(k) == [EvFull EXCEPT !.event_id = Some("e" \o ToString(k))]
MainEvents == {MainEvent(k) : k \in 1..MaxEvents}
MainTokens == {"c1"}
\* What --log-group can be given as: a log group's name, or the word "all"
\* that config.rs 19-20 has as the default of log_groups.
Requests == GroupNames \cup {"all"}

GroupPages ==
    [ok : {TRUE}, items : Opt(SeqsUpTo(LogGroups, MaxItems)), next_token : Opt(MainTokens)]
    \cup {ErrResponse}
EventPages ==
    [ok : {TRUE}, items : Opt(SeqsUpTo(MainEvents, MaxItems)), next_token : Opt(MainTokens)]
    \cup {ErrResponse}

\* main.rs 18-39: logger, arguments (AppConfig::parse), AWS config and client.
main_start ==
    /\ mainPc = "start"
    /\ cli_log_group' \in Opt(Requests)
    /\ mainPc' = "get_log_groups"
    /\ m_result' = <<>>
    /\ m_next_token' = None
    /\ UNCHANGED <<awsVars, fileVars, dbVars, m_err, filtered_log_groups, pool,
                   schema, gi, in_flight, store_calls>>

\* main.rs 42 and 129-150: let all_log_groups = get_log_groups(&client).await?;
\* one iteration of the loop of main.rs's own get_log_groups.
main_get_log_groups ==
    /\ mainPc = "get_log_groups"
    /\ \E resp \in GroupPages :
        /\ Len(m_result) + Len(unwrap_or(resp.items, <<>>)) <= MaxGroups
        /\ IF ~resp.ok
           THEN /\ mainPc' = "failed"
                /\ m_err' = Some("get_log_groups")
                /\ UNCHANGED <<m_result, m_next_token>>
           ELSE /\ m_result' = Extend(m_result, resp.items)
                /\ m_next_token' = resp.next_token
                /\ m_err' = None
                /\ mainPc' = IF IsNone(resp.next_token) THEN "filter" ELSE "get_log_groups"
    /\ UNCHANGED <<awsVars, fileVars, dbVars, cli_log_group, filtered_log_groups,
                   pool, schema, gi, in_flight, store_calls>>

\* (mutant) a log group without a name passes the filter
FilterLogGroupsNameless(all_log_groups, log_group) ==
    IF ~IsNone(log_group)
    THEN SelectSeq(all_log_groups,
                   LAMBDA lg : IF ~IsNone(lg.log_group_name)
                               THEN lg.log_group_name[1] = log_group[1]
                               ELSE TRUE)
    ELSE all_log_groups

\* main.rs 46-59: keep the groups named cli.log_group, or all of them.
FilterLogGroups(all_log_groups, log_group) ==
    IF ~IsNone(log_group)
    THEN SelectSeq(all_log_groups,
                   LAMBDA lg : IF ~IsNone(lg.log_group_name)
                               THEN lg.log_group_name[1] = log_group[1]
                               ELSE FALSE)
    ELSE all_log_groups

\* (mutant) no is_empty() check: main goes on to the store with nothing selected
main_filter_no_check ==
    /\ mainPc = "filter"
    /\ filtered_log_groups' = FilterLogGroups(m_result, cli_log_group)
    /\ m_result' = <<>>
    /\ m_next_token' = None
    /\ mainPc' = "connect"
    /\ UNCHANGED <<awsVars, fileVars, dbVars, cli_log_group, m_err, pool, schema,
                   gi, in_flight, store_calls>>

\* main.rs 46-64: filter, and return Ok(()) when nothing is left.
main_filter ==
    /\ mainPc = "filter"
    /\ filtered_log_groups' = FilterLogGroups(m_result, cli_log_group)
    /\ m_result' = <<>>
    /\ m_next_token' = None
    /\ mainPc' = IF filtered_log_groups' = <<>> THEN "done" ELSE "connect"
    /\ UNCHANGED <<awsVars, fileVars, dbVars, cli_log_group, m_err, pool, schema,
                   gi, in_flight, store_calls>>

\* main.rs 80-86: SqlitePool::connect(&sqlite_url).await.map_err(..)?
main_connect ==
    /\ mainPc = "connect"
    /\ \/ mainPc' = "init_sqlite_db" /\ pool' = Some("pool") /\ m_err' = None
       \/ mainPc' = "failed" /\ pool' = None /\ m_err' = Some("connect")
    /\ UNCHANGED <<awsVars, fileVars, dbVars, cli_log_group, m_result,
                   m_next_token, filtered_log_groups, schema, gi, in_flight,
                   store_calls>>

\* main.rs 89-92 and 226-251: CREATE TABLE / INDEX IF NOT EXISTS.
main_init_sqlite_db ==
    /\ mainPc = "init_sqlite_db"
    /\ \/ mainPc' = "for" /\ schema' = TRUE /\ m_err' = None
       \/ mainPc' = "failed" /\ schema' = schema /\ m_err' = Some("init_sqlite_db")
    /\ gi' = 1
    /\ UNCHANGED <<awsVars, fileVars, dbVars, cli_log_group, m_result,
                   m_next_token, filtered_log_groups, pool, in_flight, store_calls>>

\* main.rs 96: log_group.log_group_name.clone().unwrap_or_default()
GroupName(lg) == unwrap_or(lg.log_group_name, "")

\* main.rs 95 and 125: the head of the for loop: the body of the next group
\* begins, or Ok(()) after the last group.
main_for ==
    /\ mainPc = "for"
    /\ IF gi > Len(filtered_log_groups)
       THEN mainPc' = "done" /\ in_flight' = in_flight
       ELSE mainPc' = "fetch_logs" /\ in_flight' = in_flight \cup {gi}
    /\ m_result' = <<>>
    /\ m_next_token' = None
    /\ UNCHANGED <<awsVars, fileVars, dbVars, cli_log_group, m_err,
                   filtered_log_groups, pool, schema, gi, store_calls>>

\* (mutant) a failed filter_log_events ends the loop with what was accumulated
main_fetch_logs_absorb ==
    /\ mainPc = "fetch_logs"
    /\ \E resp \in EventPages :
        /\ LET n == Len(unwrap_or(resp.items, <<>>)) IN
            /\ Len(m_result) + n <= MaxEvents
            /\ sqlite_sequence + Len(m_result) + n <= MaxId
            /\ \A i \in 1..n : resp.items[1][i] = MainEvent(Len(m_result) + i)
        /\ m_err' = IF resp.ok THEN None ELSE Some("fetch_logs")
        /\ m_result' = Extend(m_result, resp.items)
        /\ m_next_token' = resp.next_token
        /\ mainPc' = IF IsNone(resp.next_token) THEN "store" ELSE "fetch_logs"
    /\ UNCHANGED <<awsVars, fileVars, dbVars, cli_log_group, filtered_log_groups,
                   pool, schema, gi, in_flight, store_calls>>

\* main.rs 99-105 and 153-183: let events = fetch_logs(..).await?;
\* one iteration of the loop of main.rs's own fetch_logs. The remote pages
\* through the events it holds for the group: MainEvent(1), MainEvent(2), ..
main_fetch_logs ==
    /\ mainPc = "fetch_logs"
    /\ \E resp \in EventPages :
        /\ LET n == Len(unwrap_or(resp.items, <<>>)) IN
            /\ Len(m_result) + n <= MaxEvents
            /\ sqlite_sequence + Len(m_result) + n <= MaxId
            /\ \A i \in 1..n : resp.items[1][i] = MainEvent(Len(m_result) + i)
        /\ IF ~resp.ok
           THEN /\ mainPc' = "failed"
                /\ m_err' = Some("fetch_logs")
                /\ UNCHANGED <<m_result, m_next_token>>
           ELSE /\ m_result' = Extend(m_result, resp.items)
                /\ m_next_token' = resp.next_token
                /\ m_err' = None
                /\ mainPc' = IF IsNone(resp.next_token) THEN "store" ELSE "fetch_logs"
    /\ UNCHANGED <<awsVars, fileVars, dbVars, cli_log_group, filtered_log_groups,
                   pool, schema, gi, in_flight, store_calls>>

RECURSIVE TxInsertAll(_, _, _, _)
\* The transaction after the INSERTs of the first k events (main.rs 268-280).
TxInsertAll(x, log_group_name, events, k) ==
    IF k = 0 THEN x
    ELSE TxInsert(TxInsertAll(x, log_group_name, events, k - 1),
                  log_group_name, events[k])

\* (mutant) the commit and return sit inside the loop: only the first event
\* of the batch is inserted
main_store_events_in_sqlite_first(log_group_name, events, ret) ==
    \E outcome \in {"begin", "insert", "commit", "ok"} :
        /\ ret.ok = (outcome = "ok")
        /\ outcome = "insert" => events # <<>>
        /\ \E k \in 0..Len(events) :
            /\ outcome = "begin" => k = 0
            /\ outcome = "insert" => k < Len(events)
            /\ outcome \in {"commit", "ok"} => k = Len(events)
            /\ LET x == TxInsertAll([open |-> TRUE, view |-> table, seq |-> sqlite_sequence],
                                    log_group_name, events, IF k = 0 THEN 0 ELSE 1)
               IN IF outcome = "ok"
                  THEN /\ table' = x.view
                       /\ sqlite_sequence' = x.seq
                       /\ sinceInsert' = 0
                  ELSE UNCHANGED <<table, sqlite_sequence, sinceInsert>>

\* main.rs 254-285: main.rs's own store_events_in_sqlite(&pool, name, events).
\* It fails at begin, at the k-th INSERT or at commit, which drops tx and so
\* rolls it back, or it commits; ret is the Result it returns.
main_store_events_in_sqlite(log_group_name, events, ret) ==
    \E outcome \in {"begin", "insert", "commit", "ok"} :
        /\ ret.ok = (outcome = "ok")
        /\ outcome = "insert" => events # <<>>
        /\ \E k \in 0..Len(events) :
            /\ outcome = "begin" => k = 0
            /\ outcome = "insert" => k < Len(events)
            /\ outcome \in {"commit", "ok"} => k = Len(events)
            /\ LET x == TxInsertAll([open |-> TRUE, view |-> table, seq |-> sqlite_sequence],
                                    log_group_name, events, k)
               IN IF outcome = "ok"
                  THEN /\ table' = x.view
                       /\ sqlite_sequence' = x.seq
                       /\ sinceInsert' = 0
                  ELSE UNCHANGED <<table, sqlite_sequence, sinceInsert>>

\* What store_calls records of one call: the function and whether it returned Ok.
StoreCall(fn, ok) == [fn |-> fn, ok |-> ok]

\* (mutant) the group's task is detached: the loop goes on while it counts as running
main_store_detached ==
    /\ mainPc = "store"
    /\ \E ret \in {Ok(<<>>), Err} :
        /\ main_store_events_in_sqlite(GroupName(filtered_log_groups[gi]), m_result, ret)
        /\ store_calls' = Append(store_calls, StoreCall("store_events_in_sqlite", ret.ok))
    /\ gi' = gi + 1
    /\ in_flight' = in_flight
    /\ mainPc' = "for"
    /\ UNCHANGED <<awsVars, mutex, pc, call, idx, tx, before, lastRet,
                   cli_log_group, m_result, m_next_token, m_err,
                   filtered_log_groups, pool, schema>>

\* (mutant) store_events_in_sqlite(..).await? : the error is returned by main
main_store_propagate ==
    /\ mainPc = "store"
    /\ \E ret \in {Ok(<<>>), Err} :
        /\ main_store_events_in_sqlite(GroupName(filtered_log_groups[gi]), m_result, ret)
        /\ store_calls' = Append(store_calls, StoreCall("store_events_in_sqlite", ret.ok))
    /\ gi' = gi + 1
    /\ in_flight' = in_flight \ {gi}
    /\ mainPc' = IF store_calls'[Len(store_calls')].ok THEN "for" ELSE "failed"
    /\ UNCHANGED <<awsVars, mutex, pc, call, idx, tx, before, lastRet,
                   cli_log_group, m_result, m_next_token, m_err,
                   filtered_log_groups, pool, schema>>

\* main.rs 113-119: if let Err(err) = store_events_in_sqlite(..).await { error!(..) }
\* and the end of the loop body.
main_store ==
    /\ mainPc = "store"
    /\ \E ret \in {Ok(<<>>), Err} :
        /\ main_store_events_in_sqlite(GroupName(filtered_log_groups[gi]), m_result, ret)
        /\ store_calls' = Append(store_calls, StoreCall("store_events_in_sqlite", ret.ok))
    /\ gi' = gi + 1
    /\ in_flight' = in_flight \ {gi}
    /\ mainPc' = "for"
    /\ UNCHANGED <<awsVars, mutex, pc, call, idx, tx, before, lastRet,
                   cli_log_group, m_result, m_next_token, m_err,
                   filtered_log_groups, pool, schema>>

\* The program is run again on the same sqlite_path after a run that succeeded.
main_again ==
    /\ mainPc = "done"
    /\ mainPc' = "start"
    /\ cli_log_group' = None
    /\ filtered_log_groups' = <<>>
    /\ m_result' = <<>>
    /\ m_next_token' = None
    /\ m_err' = None
    /\ pool' = None
    /\ gi' = 1
    /\ in_flight' = {}
    /\ store_calls' = <<>>
    /\ UNCHANGED <<awsVars, fileVars, dbVars, schema>>

MainInit ==
    /\ mainPc = "start"
    /\ cli_log_group = None
    /\ m_result = <<>>
    /\ m_next_token = None
    /\ m_err = None
    /\ filtered_log_groups = <<>>
    /\ pool = None
    /\ schema = FALSE
    /\ gi = 1
    /\ in_flight = {}
    /\ store_calls = <<>>

MainNext ==
    \/ main_start
    \/ main_get_log_groups
    \/ main_filter
    \/ main_connect
    \/ main_init_sqlite_db
    \/ main_for
    \/ main_fetch_logs
    \/ main_store
    \/ main_again

\* ------------------------------------------------------------- specification
Init ==
    /\ AwsInit
    /\ FileInit
    /\ DbInit
    /\ MainInit

SpecAws == Init /\ [][AwsNext]_vars
SpecDb == Init /\ [][DbNext]_vars
SpecMain == Init /\ [][MainNext]_vars

\* db.rs with the scheduling the runtime gives: a step of a call that holds
\* the lock (begin, a statement, commit) is taken, its store operation
\* returning with Ok or Err; pool.lock() of tokio's Mutex is fair, a waiting
\* task gets the lock when it is free again and again.
\* The calls are dedupe_rows and store_events_in_sqlite of one log group with
\* batches of one kind of event: the lock does not depend on what is stored.
StepInCall(t) == Begin(t) \/ store_events_in_sqlite(t) \/ dedupe_rows(t) \/ Commit(t)
LiveStoreCalls ==
    [fn : {"store_events_in_sqlite"}, log_group_name : {"A"},
     events : SeqsUpTo({EvFull}, MaxBatch)]
Acquire(t) ==
    \/ Lock(t, DedupeCall)
    \/ \E c \in LiveStoreCalls :
          /\ sqlite_sequence + Len(c.events) <= MaxId
          /\ Lock(t, c)

DbLiveNext == \E t \in Tasks : Call(t) \/ Acquire(t) \/ StepInCall(t)

SpecDbLive ==
    /\ Init
    /\ [][DbLiveNext]_vars
    /\ \A t \in Tasks : WF_vars(StepInCall(t)) /\ SF_vars(Acquire(t))

\* A paginated call of aws.rs against a remote of either kind. The runtime
\* keeps polling the call and the remote answers every request, so a loop
\* iteration that can be taken is taken.
InitAwsLive ==
    /\ pgPc = "idle"
    /\ pgCall = [op |-> "describe_log_groups", log_group_name |-> None, window |-> None]
    /\ result = <<>>
    /\ next_token = None
    /\ sent = <<>>
    /\ served = <<>>
    /\ pgRet = Err
    /\ remote \in {"finite", "endless"}
    /\ FileInit
    /\ DbInit
    /\ MainInit

SpecAwsLive == InitAwsLive /\ [][AwsNext]_vars /\ WF_vars(AwsNext)

\* The filter of main.rs 45-64 on its own: main is about to filter a list of
\* log groups that get_log_groups returned, each with a name (or none) and an
\* arn, for any --log-group.
Arns == {"arn1", "arn2"}
SelectorGroups == [log_group_name : Opt(Requests), arn : Arns]

InitFilter ==
    /\ AwsInit
    /\ FileInit
    /\ DbInit
    /\ mainPc = "filter"
    /\ cli_log_group \in Opt(Requests)
    /\ m_result \in SeqsUpTo(SelectorGroups, MaxGroups)
    /\ m_next_token = None
    /\ m_err = None
    /\ filtered_log_groups = <<>>
    /\ pool = None
    /\ schema = FALSE
    /\ gi = 1
    /\ in_flight = {}
    /\ store_calls = <<>>

FilterNext == main_filter

SpecFilter == InitFilter /\ [][FilterNext]_vars

\* ------------------------------------------------------------- paginator claims
RECURSIVE Concat(_)
\* p0 ++ p1 ++ ... ++ pn of the pages the remote returned
Concat(pages) ==
    IF pages = <<>> THEN <<>>
    ELSE unwrap_or(Head(pages).items, <<>>) \o Concat(Tail(pages))

AllPagesOk == \A i \in 1..Len(served) : served[i].ok

\* C1: a paginated call (get_log_groups or fetch_logs) whose remote answers
\* pages p0..pn, the first n with a cursor and the last without, returns
\* Ok(p0 ++ ... ++ pn) in remote order after exactly n+1 requests, the first
\* with no cursor and each later one with the cursor of the page before it.
C1_PaginatorConcat ==
    (pgPc = "return" /\ AllPagesOk) =>
        /\ served # <<>>
        /\ \A i \in 1..(Len(served) - 1) : ~IsNone(served[i].next_token)
        /\ IsNone(served[Len(served)].next_token)
        /\ pgRet = Ok(Concat(served))
        /\ Len(sent) = Len(served)
        /\ IsNone(sent[1].next_token)
        /\ \A i \in 2..Len(sent) : sent[i].next_token = served[i - 1].next_token
        /\ \A i \in 1..Len(sent) : sent[i] = Request(pgCall, sent[i].next_token)

\* Three pages with items in two of them and two different cursors.
C1_Witness ==
    /\ pgPc = "return" /\ AllPagesOk
    /\ Len(served) = 3
    /\ pgCall.op = "filter_log_events"
    /\ served[1].next_token = Some("c1") /\ served[2].next_token = Some("c2")
    /\ pgRet = Ok(<<"a", "b">>)

\* C2: if the fetch of page k fails, the paginated call returns an error that
\* carries none of the items of pages 0..k-1, the failing request is the last
\* one the remote receives (no further call, no retry).
C2_PaginatorFailure ==
        \A i \in 1..Len(served) :
            ~served[i].ok =>
                /\ i = Len(served)
                /\ Len(sent) = i
                /\ pgPc = "return"
                /\ pgRet = Err
                /\ ~pgRet.ok /\ pgRet.value = <<>>

\* Two pages with items were accumulated, then page 2 failed.
C2_Witness ==
    /\ pgPc = "return"
    /\ Len(served) = 3 /\ ~served[3].ok
    /\ result = <<"a", "b">>
    /\ pgRet = Err

\* ------------------------------------------------------------- store claims
SameTuple(r, s) ==
    /\ r.log_group = s.log_group
    /\ r.event_id = s.event_id
    /\ r.timestamp = s.timestamp
    /\ r.message = s.message

\* Task t's call of fn returns in this step, with success or not.
Returns(t, fn, ok) ==
    /\ call[t].fn = fn
    /\ pc[t] \notin {"idle", "lock"}
    /\ pc'[t] = "idle"
    /\ lastRet'.ok = ok

\* new holds exactly the lowest-id row of every tuple of old.
DedupePost(old, new) ==
    /\ new \subseteq old
    /\ \A r \in old : \E s \in new : SameTuple(r, s) /\ s.id <= r.id
    /\ \A s1, s2 \in new : SameTuple(s1, s2) => s1 = s2

\* C3: when dedupe_rows commits, the table holds exactly the rows of the table
\* before the call whose id is the minimum among the rows with the same
\* (log_group, event_id, timestamp, message): one survivor per tuple, the
\* lowest-id one, no tuple lost, rows differing in any column kept apart.
C3_DedupeKeepsMinId ==
    [][\A t \in Tasks :
          Returns(t, "dedupe_rows", TRUE) => DedupePost(before[t], table')]_vars

\* A duplicate (id 2) was deleted; the same event in two log groups was kept.
C3_Witness ==
    /\ lastRet = [fn |-> "dedupe_rows", ok |-> TRUE, n |-> 1]
    /\ sinceInsert = 1
    /\ sqlite_sequence = 3
    /\ table = {EventRow(1, "A", EvFull), EventRow(3, "B", EvFull)}

\* C4: a dedupe_rows that commits directly after another committed dedupe_rows
\* (no insert committed in between) deletes nothing: the table stays as the
\* first one left it.
C4_DedupeIdempotent ==
    [][\A t \in Tasks :
          (Returns(t, "dedupe_rows", TRUE) /\ sinceInsert >= 1) => table' = table]_vars

\* The same tuple was inserted twice, then two dedupes committed in a row.
C4_Witness ==
    /\ sinceInsert = 2
    /\ lastRet = [fn |-> "dedupe_rows", ok |-> TRUE, n |-> 1]
    /\ sqlite_sequence = 2
    /\ table = {EventRow(1, "A", EvNone)}

\* C5: store_events_in_sqlite is all-or-nothing: from the moment the call holds
\* the lock until it returns, the committed table is the one before the call;
\* a return with an error (at begin, at an insert or at commit) leaves it so,
\* and a return with success adds one row per event of the batch.
C5_InsertAllOrNothing ==
    [][\A t \in Tasks :
          (call[t].fn = "store_events_in_sqlite" /\ pc[t] \notin {"idle", "lock"}) =>
              IF Returns(t, "store_events_in_sqlite", TRUE)
              THEN /\ before[t] \subseteq table'
                   /\ Cardinality(table' \ before[t]) = Len(call[t].events)
              ELSE table' = before[t]]_vars

\* A call failed after its first INSERT on a table that already had a row.
C5_Witness ==
    /\ lastRet = [fn |-> "store_events_in_sqlite", ok |-> FALSE, n |-> 1]
    /\ table = {EventRow(1, "A", EvFull)}
    /\ \A t \in Tasks : pc[t] = "idle"

\* The column value an event's optional field is stored as.
Stored(field, default) == IF field = None THEN Some(default) ELSE field

\* new is old plus one row per event of c, in order, with ids above old's.
InsertPost(old, new, c) ==
    LET added == new \ old IN
    /\ old \subseteq new
    /\ Cardinality(added) = Len(c.events)
    /\ \A r \in added : \A o \in old : r.id > o.id
    /\ \A i \in 1..Len(c.events) :
          \E r \in added :
              /\ Cardinality({x \in added : x.id <= r.id}) = i
              /\ r.log_group = c.log_group_name
              /\ r.event_id = Stored(c.events[i].event_id, "")
              /\ r.timestamp = Stored(c.events[i].timestamp, 0)
              /\ r.message = Stored(c.events[i].message, "")

\* C6: a successful store_events_in_sqlite(G, events) adds exactly one row per
\* element of events, duplicates included, with log_group = G, the event's
\* fields and an id above every id in the table, and changes no other row;
\* a row leaves the table only when dedupe_rows commits.
C6_InsertAddsRows ==
    [][/\ \A t \in Tasks :
             Returns(t, "store_events_in_sqlite", TRUE) =>
                 InsertPost(before[t], table', call[t])
       /\ ~(table \subseteq table') =>
             \E t \in Tasks : Returns(t, "dedupe_rows", TRUE)]_vars

\* A batch of two equal events was stored on top of an existing row.
C6_Witness ==
    /\ lastRet = [fn |-> "store_events_in_sqlite", ok |-> TRUE, n |-> 2]
    /\ table = {EventRow(1, "B", EvNone), EventRow(2, "A", EvFull),
                EventRow(3, "A", EvFull)}

\* C7: an absent event_id is stored as "", an absent timestamp as 0, an absent
\* message as ""; a present field is stored as it is; no row, committed or
\* inserted in an open transaction, has a NULL event_id, timestamp or message.
C7_MissingFieldDefaults ==
    /\ \A r \in table \cup UNION {tx[t].view : t \in Tasks} :
          r.event_id # NULL /\ r.timestamp # NULL /\ r.message # NULL
    /\ \A t \in Tasks :
          (call[t].fn = "store_events_in_sqlite" /\ tx[t].open) =>
              \A i \in 1..(idx[t] - 1) :
                  \E r \in tx[t].view :
                      /\ r.id = tx[t].seq - (idx[t] - 1) + i
                      /\ r.log_group = call[t].log_group_name
                      /\ r.event_id =
                            (IF call[t].events[i].event_id = None THEN Some("")
                             ELSE call[t].events[i].event_id)
                      /\ r.timestamp =
                            (IF call[t].events[i].timestamp = None THEN Some(0)
                             ELSE call[t].events[i].timestamp)
                      /\ r.message =
                            (IF call[t].events[i].message = None THEN Some("")
                             ELSE call[t].events[i].message)

\* An event with no field and one with every field were stored by one call.
C7_Witness ==
    /\ lastRet = [fn |-> "store_events_in_sqlite", ok |-> TRUE, n |-> 2]
    /\ table = {[id |-> 1, log_group |-> "A", event_id |-> Some(""),
                 timestamp |-> Some(0), message |-> Some("")],
                [id |-> 2, log_group |-> "A", event_id |-> Some("e1"),
                 timestamp |-> Some(100), message |-> Some("m")]}

\* C8: at most one transaction is open at any time, and it is the one of the
\* task that holds the lock.
C8_OneTransaction ==
    /\ Cardinality({t \in Tasks : tx[t].open}) <= 1
    /\ \A t \in Tasks : tx[t].open => mutex = Some(t)

\* One task is inside its transaction while the other awaits the lock.
C8_Witness ==
    /\ tx["t1"].open /\ pc["t1"] = "insert" /\ idx["t1"] = 2
    /\ pc["t2"] = "lock"

\* ------------------------------------------------------------- orchestrator claims
NoDuplicateRows == \A r, s \in table : SameTuple(r, s) => r = s

\* C9: a run that ends with Ok(()) after selecting at least one log group has
\* called dedupe_rows exactly once, as its last store call, after the
\* store_events_in_sqlite of every selected group.
C9_DedupeOnceAfterTasks ==
    (mainPc = "done" /\ filtered_log_groups # <<>>) =>
        /\ Cardinality({i \in DOMAIN store_calls : store_calls[i].fn = "dedupe_rows"}) = 1
        /\ store_calls[Len(store_calls)].fn = "dedupe_rows"
        /\ Len(store_calls) = Len(filtered_log_groups) + 1

\* C10: whenever a run that follows only successful runs on the same file has
\* ended with Ok(()), no two rows of the table have the same
\* (log_group, event_id, timestamp, message).
C10_NoDuplicatesAtDone == mainPc = "done" => NoDuplicateRows

\* C11: at every moment of a run at most one per-group task is executing its
\* fetch-then-store body: the groups are handled one after the other, so the
\* number in flight stays within maxConcurrent for the default 5 and for the
\* tested 2, whatever the number of selected groups.
C11_InFlightBounded ==
    /\ Cardinality(in_flight) <= 1
    /\ in_flight \subseteq 1..Len(filtered_log_groups)
    /\ mainPc \in {"fetch_logs", "store"} => in_flight = {gi}

\* The body of the second of two selected groups runs after the first has ended.
C11_Witness ==
    /\ mainPc = "store"
    /\ Len(filtered_log_groups) = 2
    /\ gi = 2 /\ in_flight = {2}
    /\ Len(store_calls) = 1

\* C12: a store_events_in_sqlite that fails for one log group is absorbed: the
\* run does not fail, the committed rows stay as they are, the loop goes on
\* with the next group, and a run that ends with Ok(()) has called
\* store_events_in_sqlite for every selected group.
C12_StoreFailureAbsorbed ==
    [][/\ (mainPc = "store" /\ ~store_calls'[Len(store_calls')].ok) =>
              /\ mainPc' = "for"
              /\ table' = table
              /\ gi' = gi + 1
              /\ filtered_log_groups' = filtered_log_groups
       /\ (mainPc' = "done" /\ filtered_log_groups' # <<>>) =>
              /\ Len(store_calls') = Len(filtered_log_groups')
              /\ \A i \in DOMAIN store_calls' :
                    store_calls'[i].fn = "store_events_in_sqlite"]_vars

\* The store failed for group A, then B was fetched and stored, and the run
\* ended with Ok(()).
C12_Witness ==
    /\ mainPc = "done"
    /\ filtered_log_groups = <<[log_group_name |-> Some("A")],
                               [log_group_name |-> Some("B")]>>
    /\ store_calls = <<StoreCall("store_events_in_sqlite", FALSE),
                       StoreCall("store_events_in_sqlite", TRUE)>>
    /\ table = {EventRow(1, "B", MainEvent(1))}

\* C13: a fetch_logs that fails for a selected log group ends the run with
\* Err: store_events_in_sqlite is not called for that group, nothing is called
\* afterwards (no dedupe_rows, no further group), and the committed rows of
\* the groups handled before stay in the table.
C13_FetchFailureFatal ==
    [][/\ (mainPc = "fetch_logs" /\ m_err' = Some("fetch_logs")) =>
              /\ mainPc' = "failed"
              /\ table' = table
              /\ store_calls' = store_calls
              /\ Len(store_calls) = gi - 1
              /\ \A i \in DOMAIN store_calls : store_calls[i].fn # "dedupe_rows"
       /\ mainPc # "failed"]_vars

\* Group A was stored, then the fetch for group B failed.
C13_Witness ==
    /\ mainPc = "failed"
    /\ m_err = Some("fetch_logs")
    /\ gi = 2
    /\ GroupName(filtered_log_groups[2]) = "B"
    /\ store_calls = <<StoreCall("store_events_in_sqlite", TRUE)>>
    /\ table = {EventRow(1, "A", MainEvent(1))}

\* C14: when the requested log group is the word "all", the filter returns
\* the whole list get_log_groups returned, same elements in the same order,
\* whether or not a log group is itself named "all".
C14_AllSelectsEverything ==
    [][(mainPc = "filter" /\ cli_log_group = Some("all")) =>
           filtered_log_groups' = m_result]_vars

\* out is the groups of in named n, every one of them, in the order of in.
IsSelection(in, out, n) ==
    \E f \in [1..Len(out) -> 1..Len(in)] :
        /\ \A i, j \in 1..Len(out) : i < j => f[i] < f[j]
        /\ \A i \in 1..Len(out) : out[i] = in[f[i]]
        /\ {f[i] : i \in 1..Len(out)} =
              {j \in 1..Len(in) : in[j].log_group_name = Some(n)}

LastServed == served[Len(served)]

C16_EmptySelectionDone ==
    [][/\ (mainPc = "filter" /\ filtered_log_groups' = <<>>) =>
              /\ mainPc' = "done"
              /\ table' = table
       /\ mainPc \in {"start", "get_log_groups", "filter"} =>
              /\ table' = table
              /\ sqlite_sequence' = sqlite_sequence
              /\ store_calls' = <<>>
              /\ in_flight' = {}
              /\ pool' = None
       /\ (mainPc = "done" /\ filtered_log_groups = <<>>) => mainPc' = "start"]_vars

\* A run asked for group A, the remote listed only B: the run is done, and
\* the row an earlier run stored is still the whole table.
C16_Witness ==
    /\ mainPc = "done"
    /\ filtered_log_groups = <<>>
    /\ cli_log_group = Some("A")
    /\ store_calls = <<>>
    /\ table = {EventRow(1, "B", MainEvent(1))}

\* C17: a store call of the loop that succeeds adds exactly one row per event
\* that fetch_logs returned for the group, in order, each with the group's
\* name as log_group, and changes no other row (no row for a group with no
\* event); no other step of main changes the table.
C17_StoresWhatWasFetched ==
    [][/\ (mainPc = "store" /\ store_calls'[Len(store_calls')].ok) =>
              InsertPost(table, table',
                         [log_group_name |->
                              unwrap_or(filtered_log_groups[gi].log_group_name, ""),
                          events |-> m_result])
       /\ (mainPc = "store" /\ m_result = <<>>) => table' = table
       /\ mainPc # "store" => table' = table]_vars

\* Groups A and B on a fresh file, three distinct events for A and none for
\* B: the run is done with exactly three rows, all of log group A.
C17_Witness ==
    /\ mainPc = "done"
    /\ filtered_log_groups = <<[log_group_name |-> Some("A")],
                               [log_group_name |-> Some("B")]>>
    /\ store_calls = <<StoreCall("store_events_in_sqlite", TRUE),
                       StoreCall("store_events_in_sqlite", TRUE)>>
    /\ sqlite_sequence = 3
    /\ table = {EventRow(k, "A", MainEvent(k)) : k \in 1..3}
    /\ Cardinality(table) = 3

\* The orchestrator state of the spec a position of main belongs to, as its
\* place in Init, Connected, GroupsDiscovered, GroupsSelected, Fetching,
\* Deduping, Done, Failed: connecting is the step out of Init, listing the
\* log groups the step out of Connected.
OrchRank(p) ==
    CASE p \in {"start", "connect", "init_sqlite_db"} -> 0
      [] p = "get_log_groups" -> 1
      [] p = "filter" -> 2
      [] p \in {"for", "fetch_logs", "store"} -> 4
      [] p = "done" -> 6
      [] p = "failed" -> 7

\* C18: a run goes through Init, Connected, GroupsDiscovered, GroupsSelected,
\* Fetching, Deduping, Done in this order (or to Failed): the store is
\* connected before the log groups are listed, the schema is initialised
\* before the first store call, and Done is entered from GroupsSelected with
\* nothing selected or after dedupe_rows.
C18_StateOrder ==
    [][mainPc' # "start" =>
          /\ OrchRank(mainPc') >= OrchRank(mainPc)
          /\ mainPc' = "get_log_groups" => ~IsNone(pool')
          /\ mainPc' = "store" => (schema' /\ ~IsNone(pool'))
          /\ (mainPc' = "done" /\ filtered_log_groups' # <<>>) =>
                (store_calls' # <<>> /\
                 store_calls'[Len(store_calls')].fn = "dedupe_rows")]_vars

\* C20: the lock is held only by a task inside store_events_in_sqlite or
\* dedupe_rows; when such a call returns, with Ok or with the error of begin,
\* of a statement or of commit, the lock is free again; and every task that
\* awaits the lock gets it in the end.
C20_LockReleased ==
    /\ [](\A t \in Tasks : mutex = Some(t) => pc[t] \notin {"idle", "lock"})
    /\ [][\A t \in Tasks :
             (pc[t] \notin {"idle", "lock"} /\ pc'[t] = "idle") =>
                 (mutex = Some(t) /\ mutex' = None)]_vars
    /\ \A t \in Tasks : (pc[t] = "lock") ~> (mutex = Some(t))

\* The last call failed after its first INSERT and returned; the task that
\* was waiting meanwhile now holds the lock.
C20_Witness ==
    /\ lastRet = [fn |-> "store_events_in_sqlite", ok |-> FALSE, n |-> 1]
    /\ pc["t1"] = "idle"
    /\ mutex = Some("t2") /\ pc["t2"] = "begin"

=============================================================================
